---- MODULE Spec2Model ----
(***************************************************************************)
(* Model of setup.py: the readiness waits of setup_networking, the         *)
(* key-based create() helper of setup_maas with the baseline objects and   *)
(* the boot resource import, and the per-node coroutines of                *)
(* setup_maas_nodes.                                                       *)
(***************************************************************************)
EXTENDS Integers, Sequences, FiniteSets, TLC

\* ---------------------------------------------------------------- bounds
MaxDesired == 2    \* longest desired list drawn for create()
MaxExisting == 2   \* longest existing list drawn for create()
MaxCalls == 2      \* create() calls made in sequence on one collection
MaxTasks == 2      \* setup_node coroutines followed through one fan-out
MaxRuns == 2       \* runs of setup_maas_nodes made in sequence

\* ------------------------------------------------------- create() inputs
\* Objects of the collection create() is exercised on: boot source
\* selections, reduced to the two attributes the code uses as keys.
Objs == [os : {"ubuntu", "centos"}, release : {"focal", "bionic"}]

KeyChoices == {<<"os">>, <<"release">>, <<"os", "release">>}

SeqsUpTo(S, n) == UNION {[1..k -> S] : k \in 0..n}

VARIABLES
  pc,         \* position of main(): the statement being executed
  ob_num,     \* the Orange Box number
  tasks,      \* the slots whose setup_node coroutine is followed
  run,        \* number of the current run of setup_maas_nodes
  pings,      \* ping invocations made by the current wait loop
  lastStatus, \* exit status of the last ping of the current wait loop
  ctl,        \* controller: collection name -> objects, in creation order
  ctl0,       \* create() on drawn inputs: the collections before the first call
  importing,  \* controller: boot resources are being imported
  waited,     \* the import loop has slept at least once
  cmachines,  \* controller: the machines, indexed by the order of creation
  coll,       \* create(): the collection of `existing`
  existing,   \* create(): the list passed as `existing`
  desired,    \* create(): the list passed as `desired`
  keys,       \* create(): the key fields
  to_create,  \* create(): the filtered list
  issued,     \* create(): the create calls issued by the current call
  rstat,      \* create(): "idle", "loop", "returned", "raised"
  callNo,     \* number of create() calls begun
  machines,   \* setup_maas_nodes: the list fetched before the fan-out
  existing_hostnames, \* setup_maas_nodes: hostnames of `machines`
  zones,      \* setup_maas_nodes: the two zones fetched by name
  tags,       \* setup_maas_nodes: the two tags fetched by name
  spc,        \* setup_node: the await each coroutine is suspended at
  mac,        \* setup_node: local `mac`
  machine,    \* setup_node: local `machine`
  tagi,       \* setup_node: position in `for tag in tags`
  out,        \* setup_node: the line the coroutine printed when it ended
  fault       \* setup_node: which await of the coroutine failed, if any

recvars == <<coll, existing, desired, keys, to_create, issued, rstat, callNo>>
netvars == <<pings, lastStatus>>
nodevars == <<machines, existing_hostnames, zones, tags, spc, mac, machine, tagi,
              out, fault>>
vars == <<pc, ob_num, tasks, run, pings, lastStatus, ctl, ctl0, importing, waited,
          cmachines, coll, existing, desired, keys, to_create, issued, rstat,
          callNo, machines, existing_hostnames, zones, tags, spc, mac, machine,
          tagi, out, fault>>

\* tuple(getattr(e, key) for key in keys) / tuple(o[key] for key in keys)
KeyOf(o, ks) == [i \in 1..Len(ks) |-> o[ks[i]]]

\* set(tuple(getattr(e, key) for key in keys) for e in existing)
ExistingKeys(ex, ks) == {KeyOf(ex[i], ks) : i \in 1..Len(ex)}

ToCreateAll(ex, des, ks) == des

ToCreateFirstKey(ex, des, ks) ==
  SelectSeq(des, LAMBDA o : KeyOf(o, <<ks[1]>>) \notin ExistingKeys(ex, <<ks[1]>>))

\* The missing objects, taken from the end of desired to its start.
ToCreateReversed(ex, des, ks) ==
  LET missing == SelectSeq(des, LAMBDA o : KeyOf(o, ks) \notin ExistingKeys(ex, ks))
  IN  [i \in 1..Len(missing) |-> missing[Len(missing) + 1 - i]]

\* [o for o in desired if tuple(o[key] for key in keys) not in existing_keys]
ToCreate(ex, des, ks) ==
  SelectSeq(des, LAMBDA o : KeyOf(o, ks) \notin ExistingKeys(ex, ks))

\* ------------------------------------------------------------- create()
\* The collections create() and the ip range step work on.
Colls == {"ip_ranges", "ssh_keys", "selections", "zones", "tags"}

NoSlots == {}
NoFun == <<>>

\* The call: existing_keys and to_create are computed once, before the loop.
CallCreate(c, ex, des, ks) ==
  /\ coll' = c
  /\ existing' = ex
  /\ desired' = des
  /\ keys' = ks
  /\ to_create' = ToCreate(ex, des, ks)
  /\ issued' = <<>>
  /\ rstat' = "loop"
  /\ callNo' = callNo + 1

\* A create that stores the new object in place of the collection.
CreateOkReplaces ==
  /\ rstat = "loop"
  /\ Len(issued) < Len(to_create)
  /\ issued' = Append(issued, to_create[Len(issued) + 1])
  /\ ctl' = [ctl EXCEPT ![coll] = <<to_create[Len(issued) + 1]>>]
  /\ UNCHANGED <<pc, ob_num, tasks, run, netvars, ctl0, importing, waited, cmachines,
                 coll, existing, desired, keys, to_create, rstat, callNo, nodevars>>

\* One iteration of `for obj in to_create`: existing.__class__.create(**obj)
\* succeeds and the controller stores an object with the attributes passed.
CreateOk ==
  /\ rstat = "loop"
  /\ Len(issued) < Len(to_create)
  /\ issued' = Append(issued, to_create[Len(issued) + 1])
  /\ ctl' = [ctl EXCEPT ![coll] = Append(@, to_create[Len(issued) + 1])]
  /\ UNCHANGED <<pc, ob_num, tasks, run, netvars, ctl0, importing, waited, cmachines,
                 coll, existing, desired, keys, to_create, rstat, callNo, nodevars>>

\* A loop that would log the failed create and go on with the next item.
CreateFailSwallowed ==
  /\ rstat = "loop"
  /\ Len(issued) < Len(to_create)
  /\ issued' = Append(issued, to_create[Len(issued) + 1])
  /\ UNCHANGED <<pc, ob_num, tasks, run, netvars, ctl, ctl0, importing, waited,
                 cmachines, coll, existing, desired, keys, to_create, rstat,
                 callNo, nodevars>>

\* One iteration of the loop: the create call raises; nothing in create(),
\* setup_maas() or main() catches it.
CreateFail ==
  /\ rstat = "loop"
  /\ Len(issued) < Len(to_create)
  /\ issued' = Append(issued, to_create[Len(issued) + 1])
  /\ rstat' = "raised"
  /\ pc' = IF pc = "harness" THEN pc ELSE "crashed"
  /\ UNCHANGED <<ob_num, tasks, run, netvars, ctl, ctl0, importing, waited, cmachines,
                 coll, existing, desired, keys, to_create, callNo, nodevars>>

\* The loop is exhausted and create() returns.
CreateReturn ==
  /\ rstat = "loop"
  /\ Len(issued) = Len(to_create)
  /\ rstat' = "returned"
  /\ UNCHANGED <<pc, ob_num, tasks, run, netvars, ctl, ctl0, importing, waited,
                 cmachines, coll, existing, desired, keys, to_create, issued,
                 callNo, nodevars>>

\* --------------------------------------- create() on drawn inputs (SpecRec)
InitRec ==
  /\ pc = "harness"
  /\ ob_num = 0
  /\ tasks = NoSlots
  /\ run = 0
  /\ pings = 0
  /\ lastStatus = -1
  /\ \E ex \in SeqsUpTo(Objs, MaxExisting) :
       ctl = [c \in Colls |-> IF c = "selections" THEN ex ELSE <<>>]
  /\ ctl0 = ctl
  /\ importing = FALSE
  /\ waited = FALSE
  /\ cmachines = <<>>
  /\ coll = "selections"
  /\ desired \in SeqsUpTo(Objs, MaxDesired)
  /\ keys \in KeyChoices
  /\ existing = <<>>
  /\ to_create = <<>>
  /\ issued = <<>>
  /\ rstat = "idle"
  /\ callNo = 0
  /\ machines = <<>>
  /\ existing_hostnames = <<>>
  /\ zones = <<>>
  /\ tags = <<>>
  /\ spc = NoFun
  /\ mac = NoFun
  /\ machine = NoFun
  /\ tagi = NoFun
  /\ out = NoFun
  /\ fault = NoFun

\* First call: `existing` is the list read from the controller.
FirstCall ==
  /\ pc = "harness"
  /\ rstat = "idle"
  /\ CallCreate(coll, ctl[coll], desired, keys)
  /\ UNCHANGED <<pc, ob_num, tasks, run, netvars, ctl, ctl0, importing, waited,
                 cmachines, nodevars>>

\* A further call with the same desired list and keys, `existing` read again.
AgainCall ==
  /\ pc = "harness"
  /\ rstat = "returned"
  /\ callNo < MaxCalls
  /\ CallCreate(coll, ctl[coll], desired, keys)
  /\ UNCHANGED <<pc, ob_num, tasks, run, netvars, ctl, ctl0, importing, waited,
                 cmachines, nodevars>>

NextRec == FirstCall \/ AgainCall \/ CreateOk \/ CreateFail \/ CreateReturn

SpecRec == InitRec /\ [][NextRec]_vars

\* ------------------------------------------------------- setup_networking
NetAttempts == 60
DnsAttempts == 60

\* Exit statuses of ping: 0 a reply, 1 no reply, 2 any other error.
PingStatus == {0, 1, 2}

NetWaitNextGoesOn(st, n) ==
  IF st = 0 THEN "net_up"
  ELSE IF st = 1 THEN (IF n = NetAttempts THEN "net_up" ELSE "net_wait")
  ELSE "crashed"

\* for _ in range(60): try ping; break / except ErrorReturnCode_1 / else exit(1)
\* st is the status of invocation n; any status but 0 and 1 is not caught.
NetWaitNext(st, n) ==
  IF st = 0 THEN "net_up"
  ELSE IF st = 1 THEN (IF n = NetAttempts THEN "exit1" ELSE "net_wait")
  ELSE "crashed"

\* A DNS wait that goes on with the setup after its last failed attempt.
DnsWaitNextGoesOn(st, n) ==
  IF st = 0 THEN "dns_up"
  ELSE IF st \in {1, 2} THEN (IF n = DnsAttempts THEN "dns_up" ELSE "dns_wait")
  ELSE "crashed"

\* The same loop for launchpad.net; statuses 1 and 2 are caught.
DnsWaitNext(st, n) ==
  IF st = 0 THEN "dns_up"
  ELSE IF st \in {1, 2} THEN (IF n = DnsAttempts THEN "exit1" ELSE "dns_wait")
  ELSE "crashed"

mainframe == <<ob_num, tasks, run, ctl, ctl0, importing, waited, cmachines>>

\* ping("-c1", "8.8.8.8")
NetPing ==
  /\ pc = "net_wait"
  /\ \E st \in PingStatus :
       /\ pings' = pings + 1
       /\ lastStatus' = st
       /\ pc' = NetWaitNext(st, pings + 1)
  /\ UNCHANGED <<mainframe, recvars, nodevars>>

\* print("Waiting for DNS to come up...") and entry of the second loop
DnsBegin ==
  /\ pc = "net_up"
  /\ pc' = "dns_wait"
  /\ pings' = 0
  /\ lastStatus' = -1
  /\ UNCHANGED <<mainframe, recvars, nodevars>>

\* ping("-c1", "launchpad.net")
DnsPing ==
  /\ pc = "dns_wait"
  /\ \E st \in PingStatus :
       /\ pings' = pings + 1
       /\ lastStatus' = st
       /\ pc' = DnsWaitNext(st, pings + 1)
  /\ UNCHANGED <<mainframe, recvars, nodevars>>

\* setup_apt(), setup_niceties(), setup_ssh(): shell commands, any may raise
SetupHost ==
  /\ pc = "dns_up"
  /\ \E ok \in BOOLEAN : pc' = IF ok THEN "maas_init" ELSE "crashed"
  /\ pings' = 0
  /\ lastStatus' = -1
  /\ UNCHANGED <<mainframe, recvars, nodevars>>

\* ------------------------------------------------------------- setup_maas
SshDesired == <<[key |-> "ubuntu_key"]>>

\* (arches, subarches, labels and boot_source are the same in both items)
SelDesired == <<[os |-> "ubuntu", release |-> "focal"],
                [os |-> "ubuntu", release |-> "bionic"]>>

ZoneDesired == <<[name |-> "zone1", description |-> "Physical machines 1-5"],
                 [name |-> "zone2", description |-> "Physical machines 6-10"]>>

TagDesired == <<[name |-> "physical"], [name |-> "use-fastpath-installer"]>>

IpRange == [type |-> "dynamic", start_ip |-> 1, end_ip |-> 20]

DefaultZone == [name |-> "default", description |-> ""]

Prefixes(seq) == {SubSeq(seq, 1, k) : k \in 0..Len(seq)}

\* What the controller holds when the client connects: a new controller, or
\* one that an earlier run of this program has left at any point.
CtlStart ==
  {[c \in Colls |->
      CASE c = "ip_ranges" -> r
        [] c = "ssh_keys" -> k
        [] c = "selections" -> b
        [] c = "zones" -> <<DefaultZone>> \o z
        [] c = "tags" -> t] :
    r \in Prefixes(<<IpRange>>), k \in Prefixes(SshDesired),
    b \in Prefixes(SelDesired), z \in Prefixes(ZoneDesired),
    t \in Prefixes(TagDesired)}

\* if not client.ip_ranges.list(): client.ip_ranges.create(...)
IpRanges ==
  /\ pc = "ip_ranges"
  /\ \E ok \in BOOLEAN :
       IF ok
       THEN /\ pc' = "configure"
            /\ ctl' = IF ctl["ip_ranges"] = <<>>
                      THEN [ctl EXCEPT !["ip_ranges"] = <<IpRange>>]
                      ELSE ctl
       ELSE /\ pc' = "crashed"
            /\ UNCHANGED ctl
  /\ UNCHANGED <<ob_num, tasks, run, ctl0, importing, waited, cmachines, netvars,
                 recvars, nodevars>>

\* VLAN setup and the three client.maas.set_* calls
ConfigureMaas ==
  /\ pc = "configure"
  /\ \E ok \in BOOLEAN : pc' = IF ok THEN "add_ssh" ELSE "crashed"
  /\ UNCHANGED <<mainframe, netvars, recvars, nodevars>>

\* create(client.ssh_keys.list(), [{"key": ubuntu_key}], ("key", ))
AddSshKey ==
  /\ pc = "add_ssh"
  /\ pc' = "ssh_keys"
  /\ CallCreate("ssh_keys", ctl["ssh_keys"], SshDesired, <<"key">>)
  /\ UNCHANGED <<mainframe, netvars, nodevars>>

\* create(BootSourceSelections.read(boot_source), [...], ("os", "release"))
BootSelections ==
  /\ pc = "ssh_keys"
  /\ rstat = "returned"
  /\ pc' = "selections"
  /\ CallCreate("selections", ctl["selections"], SelDesired, <<"os", "release">>)
  /\ UNCHANGED <<mainframe, netvars, nodevars>>

\* create(client.zones.list(), [...]) with the default keys=("name",)
Zones ==
  /\ pc = "selections"
  /\ rstat = "returned"
  /\ pc' = "zones"
  /\ CallCreate("zones", ctl["zones"], ZoneDesired, <<"name">>)
  /\ UNCHANGED <<mainframe, netvars, nodevars>>

\* create(client.tags.list(), [...]) with the default keys=("name",)
Tags ==
  /\ pc = "zones"
  /\ rstat = "returned"
  /\ pc' = "tags"
  /\ CallCreate("tags", ctl["tags"], TagDesired, <<"name">>)
  /\ UNCHANGED <<mainframe, netvars, nodevars>>

\* client.boot_resources.start_import(); the locals of the last create()
\* call are gone
StartImport ==
  /\ pc = "tags"
  /\ rstat = "returned"
  /\ rstat' = "idle"
  /\ coll' = "none"
  /\ existing' = <<>>
  /\ desired' = <<>>
  /\ keys' = <<>>
  /\ to_create' = <<>>
  /\ issued' = <<>>
  /\ \E ok \in BOOLEAN :
       IF ok THEN pc' = "import_wait" /\ importing' = TRUE
             ELSE pc' = "crashed" /\ UNCHANGED importing
  /\ UNCHANGED <<ob_num, tasks, run, ctl, ctl0, waited, cmachines, netvars, callNo,
                 nodevars>>

\* The controller finishes the import.
ImportFinishes ==
  /\ importing
  /\ importing' = FALSE
  /\ UNCHANGED <<pc, ob_num, tasks, run, ctl, ctl0, waited, cmachines, netvars,
                 recvars, nodevars>>

\* A wait that gives up after one sleep and goes on with the nodes.
ImportPollOnce ==
  /\ pc = "import_wait"
  /\ \E ok \in BOOLEAN :
       IF ~ok THEN pc' = "crashed" /\ UNCHANGED waited
       ELSE IF importing /\ ~waited THEN waited' = TRUE /\ UNCHANGED pc
       ELSE pc' = "nodes_connect" /\ waited' = FALSE
  /\ UNCHANGED <<ob_num, tasks, run, ctl, ctl0, importing, cmachines, netvars,
                 recvars, nodevars>>

\* while True: if not is_importing(): break; print; time.sleep(15)
ImportPoll ==
  /\ pc = "import_wait"
  /\ \E ok \in BOOLEAN :
       IF ~ok THEN pc' = "crashed" /\ UNCHANGED waited
       ELSE IF importing THEN waited' = TRUE /\ UNCHANGED pc
       ELSE pc' = "nodes_connect" /\ waited' = FALSE
  /\ UNCHANGED <<ob_num, tasks, run, ctl, ctl0, importing, cmachines, netvars,
                 recvars, nodevars>>

\* ------------------------------------------------------- setup_maas_nodes
N == 10

ObNums == {4, 8}

\* The Orange Box whose node discovery is run repeatedly.
RunObNums == {8}

\* Repeated runs are followed for MaxTasks slots from slot 5 on: the slot of
\* the hostname node05ob8 and the slots at the boundary of the two zones.
RunTaskSets == {{s \in 1..N : 5 <= s /\ s < 5 + MaxTasks}}

\* The fan-out is followed for every run of MaxTasks consecutive slots of 1..N.
TaskSets == {a..(a + MaxTasks - 1) : a \in 1..(N - MaxTasks + 1)}

Digit(d) == <<"0", "1", "2", "3", "4", "5", "6", "7", "8", "9">>[d + 1]

RECURSIVE Decimal(_)
Decimal(n) == IF n < 10 THEN <<Digit(n)>> ELSE Decimal(n \div 10) \o <<Digit(n % 10)>>

\* {num:02}: decimal, padded with zeros on the left to a width of at least 2
Pad2(n) == IF Len(Decimal(n)) < 2 THEN <<"0">> \o Decimal(n) ELSE Decimal(n)

\* A hostname that names the Orange Box and leaves the slot out.
HostnameOfBox(num, ob) == <<"n", "o", "d", "e">> \o <<"o", "b">> \o Decimal(ob)

\* f"node{num:02}ob{ob_num}", as the sequence of its characters
Hostname(num, ob) == <<"n", "o", "d", "e">> \o Pad2(num) \o <<"o", "b">> \o Decimal(ob)

\* The address without the offset of the management interfaces.
AmtIpNoOffset(num, ob) == <<172, 27, ob, num>>

\* amtnum = num + 10; f"172.27.{ob_num}.{amtnum}"
AmtIp(num, ob) == <<172, 27, ob, num + 10>>

ZoneIndexMinusOne(num) == (num - 1) \div 6

\* num // 6
ZoneIndex(num) == num \div 6

\* The hardware address the neighbor table holds for the AMT port of a slot.
HwMac(num) == <<"mac", num>>

\* stdout of `ip neighbor show <amt_ip>` after split(" "): nothing printed
\* (no entry), or one line for the address.
NeighborSplits(num, ob) ==
  {<<"">>, <<AmtIp(num, ob), "dev", "br0", "lladdr", HwMac(num), "REACHABLE">>}

\* A machine as machines.create leaves it on the controller.
NewRecord(num, ob, m) ==
  [hostname |-> Hostname(num, ob), mac |-> m, power_type |-> "amt",
   power_address |-> AmtIp(num, ob), tags |-> {}, zone |-> "default"]

\* The slots of S in ascending order.
Ascending(S) ==
  CHOOSE f \in [1..Cardinality(S) -> S] : \A i, j \in 1..Cardinality(S) : i < j => f[i] < f[j]

\* The machines the controller holds when the client connects: none, or
\* those an earlier run has created, and done nothing else to, for some slots.
MachinesStart(ts, ob) ==
  {[i \in 1..Cardinality(P) |-> NewRecord(Ascending(P)[i], ob, HwMac(Ascending(P)[i]))] :
     P \in SUBSET ts}

\* install postgresql and maas, maas init, login, connect(url, apikey)
MaasInit ==
  /\ pc = "maas_init"
  /\ \E ok \in BOOLEAN :
       IF ok
       THEN /\ pc' = "ip_ranges"
            /\ ctl' \in CtlStart
            /\ cmachines' \in MachinesStart(tasks, ob_num)
       ELSE /\ pc' = "crashed"
            /\ UNCHANGED <<ctl, cmachines>>
  /\ UNCHANGED <<ob_num, tasks, run, ctl0, importing, waited, netvars, recvars,
                 nodevars>>

Terminal == {"done", "skipped", "raised"}

NoMac == <<>>
NoMachine == [at |-> 0, id |-> 0, zone |-> "none"]

\* A coroutine ends, by return or by an exception: its locals are gone.
Ended(f, s, none) == [f EXCEPT ![s] = none]

\* The controller's record of the machine a coroutine holds in `machine`.
MachineId(s) == IF machine[s].at > 0 THEN machines[machine[s].at].id ELSE machine[s].id

\* A lookup that takes the first machine of the list, whatever its hostname.
FirstOfList(h) == 1

\* next(m for m in machines if m.hostname == hostname)
FirstWithHostname(h) ==
  CHOOSE i \in 1..Len(machines) :
    /\ machines[i].hostname = h
    /\ \A j \in 1..(i - 1) : machines[j].hostname # h

HasName(objs, n) == \E i \in 1..Len(objs) : objs[i].name = n

slotframe == <<ob_num, tasks, run, netvars, ctl, ctl0, importing, waited, recvars,
               existing_hostnames, zones, tags>>

\* connect, machines.list(), zones.get x2, tags.get x2, and asyncio.wait
\* creating one task per slot
NodesConnect ==
  /\ pc = "nodes_connect"
  /\ \E ok \in BOOLEAN :
       IF ok /\ HasName(ctl["zones"], "zone1") /\ HasName(ctl["zones"], "zone2")
             /\ HasName(ctl["tags"], "physical")
             /\ HasName(ctl["tags"], "use-fastpath-installer")
       THEN /\ pc' = "fanout"
            /\ machines' = [i \in 1..Len(cmachines) |->
                              [id |-> i, hostname |-> cmachines[i].hostname,
                               zone |-> cmachines[i].zone]]
            /\ existing_hostnames' = [i \in 1..Len(cmachines) |-> cmachines[i].hostname]
            /\ zones' = <<"zone1", "zone2">>
            /\ tags' = <<"physical", "use-fastpath-installer">>
            /\ spc' = [s \in tasks |-> "ping"]
       ELSE /\ pc' = "crashed"
            /\ UNCHANGED <<machines, existing_hostnames, zones, tags, spc>>
  /\ UNCHANGED <<ob_num, tasks, run, netvars, ctl, ctl0, importing, waited, cmachines,
                 recvars, mac, machine, tagi, out, fault>>

\* The coroutine ends with an exception of one of its awaits after the ping:
\* nothing in setup_node catches it and nothing is printed.
Raise(s) ==
  /\ spc' = [spc EXCEPT ![s] = "raised"]
  /\ fault' = [fault EXCEPT ![s] = "later"]
  /\ mac' = Ended(mac, s, NoMac)
  /\ machine' = Ended(machine, s, NoMachine)
  /\ tagi' = Ended(tagi, s, 0)
  /\ UNCHANGED out

\* A probe whose failure is ignored.
AfterPingIgnored(ok) == "neighbor"

AfterPingUncaught(ok) == IF ok THEN "neighbor" ELSE "raised"

\* try: await run(ping) / except Exception: print(...); return
AfterPing(ok) == IF ok THEN "neighbor" ELSE "skipped"

\* await run(f"ping -c1 {amt_ip}"); on failure "Couldn't contact AMT" is printed
PingDone(s) ==
  /\ pc = "fanout" /\ spc[s] = "ping"
  /\ \E ok \in BOOLEAN :
       /\ spc' = [spc EXCEPT ![s] = AfterPing(ok)]
       /\ fault' = [fault EXCEPT ![s] = IF ok THEN "none" ELSE "ping"]
       /\ out' = [out EXCEPT ![s] =
                    IF AfterPing(ok) = "skipped" THEN "Couldn't contact AMT" ELSE @]
  /\ UNCHANGED <<pc, slotframe, cmachines, machines, mac, machine, tagi>>

InSnapshotNever(h) == FALSE

\* hostname in existing_hostnames
InSnapshot(h) == \E i \in 1..Len(existing_hostnames) : existing_hostnames[i] = h

\* await run(f"ip neighbor show {amt_ip}"); mac = neighbor.split(" ")[-2];
\* then the lookup of hostname in existing_hostnames, up to the next await
NeighborDone(s) ==
  /\ pc = "fanout" /\ spc[s] = "neighbor"
  /\ \/ Raise(s)                                   \* run() raises: exit status # 0
     \/ \E o \in NeighborSplits(s, ob_num) :
          IF Len(o) < 2
          THEN Raise(s)                            \* IndexError
          ELSE /\ mac' = [mac EXCEPT ![s] = o[Len(o) - 1]]
               /\ IF InSnapshot(Hostname(s, ob_num))
                  THEN /\ machine' = [machine EXCEPT ![s] =
                             [at |-> FirstWithHostname(Hostname(s, ob_num)),
                              id |-> 0, zone |-> "none"]]
                       /\ spc' = [spc EXCEPT ![s] = "set_power"]
                  ELSE /\ spc' = [spc EXCEPT ![s] = "create"]
                       /\ UNCHANGED machine
               /\ UNCHANGED <<tagi, out, fault>>
  /\ UNCHANGED <<pc, slotframe, cmachines, machines>>

\* machine = await client.machines.create(...)
CreateDone(s) ==
  /\ pc = "fanout" /\ spc[s] = "create"
  /\ \E ok \in BOOLEAN :
       IF ok
       THEN /\ cmachines' = Append(cmachines, NewRecord(s, ob_num, mac[s]))
            /\ machine' = [machine EXCEPT ![s] =
                 [at |-> 0, id |-> Len(cmachines) + 1, zone |-> "default"]]
            /\ spc' = [spc EXCEPT ![s] = "set_power"]
            /\ UNCHANGED <<mac, tagi, out, fault>>
       ELSE Raise(s) /\ UNCHANGED cmachines
  /\ UNCHANGED <<pc, slotframe, machines>>

\* await machine.set_power("amt", {"power_address": amt_ip, ...})
SetPowerDone(s) ==
  /\ pc = "fanout" /\ spc[s] = "set_power"
  /\ \E ok \in BOOLEAN :
       IF ok
       THEN /\ cmachines' = [cmachines EXCEPT ![MachineId(s)] =
                 [@ EXCEPT !.power_type = "amt", !.power_address = AmtIp(s, ob_num)]]
            /\ spc' = [spc EXCEPT ![s] = "tag_add"]
            /\ tagi' = [tagi EXCEPT ![s] = 1]
            /\ UNCHANGED <<mac, machine, out, fault>>
       ELSE Raise(s) /\ UNCHANGED cmachines
  /\ UNCHANGED <<pc, slotframe, machines>>

\* The zone object a coroutine has assigned to its `machine` object.
LocalZone(s) == IF machine[s].at > 0 THEN machines[machine[s].at].zone ELSE machine[s].zone

\* A tag loop that stops after its first tag.
MoreTagsNone(i) == FALSE

\* `for tag in tags`: another tag follows the i-th
MoreTags(i) == i < Len(tags)

\* await machine.tags.add(tag), one iteration of `for tag in tags`; after the
\* last one, machine.zone = zones[num // 6] up to the await of save()
TagAddDone(s) ==
  /\ pc = "fanout" /\ spc[s] = "tag_add"
  /\ \E ok \in BOOLEAN :
       IF ~ok
       THEN Raise(s) /\ UNCHANGED <<cmachines, machines>>
       ELSE /\ cmachines' = [cmachines EXCEPT ![MachineId(s)].tags = @ \cup {tags[tagi[s]]}]
            /\ IF MoreTags(tagi[s])
               THEN /\ tagi' = [tagi EXCEPT ![s] = @ + 1]
                    /\ UNCHANGED <<spc, mac, machine, machines, out, fault>>
               ELSE IF ZoneIndex(s) < Len(zones)
                    THEN /\ spc' = [spc EXCEPT ![s] = "save"]
                         /\ UNCHANGED <<tagi, mac, out, fault>>
                         /\ IF machine[s].at > 0
                            THEN /\ machines' = [machines EXCEPT ![machine[s].at].zone =
                                                   zones[ZoneIndex(s) + 1]]
                                 /\ UNCHANGED machine
                            ELSE /\ machine' = [machine EXCEPT ![s].zone =
                                                  zones[ZoneIndex(s) + 1]]
                                 /\ UNCHANGED machines
                    ELSE Raise(s) /\ UNCHANGED machines     \* IndexError
  /\ UNCHANGED <<pc, slotframe>>

\* await machine.save(); print("Finished setting up ...")
SaveDone(s) ==
  /\ pc = "fanout" /\ spc[s] = "save"
  /\ \E ok \in BOOLEAN :
       IF ok
       THEN /\ cmachines' = [cmachines EXCEPT ![MachineId(s)].zone = LocalZone(s)]
            /\ spc' = [spc EXCEPT ![s] = "done"]
            /\ out' = [out EXCEPT ![s] = "Finished setting up"]
            /\ mac' = Ended(mac, s, NoMac)
            /\ machine' = Ended(machine, s, NoMachine)
            /\ tagi' = Ended(tagi, s, 0)
            /\ UNCHANGED fault
       ELSE Raise(s) /\ UNCHANGED cmachines
  /\ UNCHANGED <<pc, slotframe, machines>>

\* asyncio.wait with the default return_when=ALL_COMPLETED
JoinReady == \A s \in tasks : spc[s] \in Terminal

\* asyncio.wait returns once every task has finished, by return or by an
\* exception, which stays in the task; asyncio.run and main() then return.
Join ==
  /\ pc = "fanout"
  /\ JoinReady
  /\ pc' = "exit0"
  /\ UNCHANGED <<slotframe, cmachines, machines, spc, mac, machine, tagi, out, fault>>

\* ------------------------------------------------------------------ main
NoCtl == [c \in Colls |-> <<>>]

Init ==
  /\ pc = "net_wait"
  /\ ob_num \in ObNums
  /\ tasks \in TaskSets
  /\ run = 1
  /\ pings = 0
  /\ lastStatus = -1
  /\ ctl = NoCtl
  /\ ctl0 = NoCtl
  /\ importing = FALSE
  /\ waited = FALSE
  /\ cmachines = <<>>
  /\ coll = "none"
  /\ existing = <<>>
  /\ desired = <<>>
  /\ keys = <<>>
  /\ to_create = <<>>
  /\ issued = <<>>
  /\ rstat = "idle"
  /\ callNo = 0
  /\ machines = <<>>
  /\ existing_hostnames = <<>>
  /\ zones = <<>>
  /\ tags = <<>>
  /\ spc = [s \in tasks |-> "unstarted"]
  /\ mac = [s \in tasks |-> NoMac]
  /\ machine = [s \in tasks |-> NoMachine]
  /\ tagi = [s \in tasks |-> 0]
  /\ out = [s \in tasks |-> ""]
  /\ fault = [s \in tasks |-> "none"]

Slot(s) ==
  \/ PingDone(s) \/ NeighborDone(s) \/ CreateDone(s)
  \/ SetPowerDone(s) \/ TagAddDone(s) \/ SaveDone(s)

Next ==
  \/ NetPing \/ DnsBegin \/ DnsPing \/ SetupHost
  \/ MaasInit \/ IpRanges \/ ConfigureMaas
  \/ AddSshKey \/ BootSelections \/ Zones \/ Tags
  \/ CreateOk \/ CreateFail \/ CreateReturn
  \/ StartImport \/ ImportFinishes \/ ImportPoll
  \/ NodesConnect
  \/ \E s \in tasks : Slot(s)
  \/ Join

Spec == Init /\ [][Next]_vars

\* main() is the only thread and time.sleep(15) returns: while the program is
\* in the import loop it polls again, and the controller answers the poll.
ImportPollAnswered == ImportPoll /\ pc' # "crashed"

SpecLive == Init /\ [][Next]_vars /\ WF_vars(ImportPollAnswered)

\* ------------------------------ setup_maas_nodes run repeatedly (SpecRuns)
CtlDone ==
  [c \in Colls |->
     CASE c = "ip_ranges" -> <<IpRange>>
       [] c = "ssh_keys" -> SshDesired
       [] c = "selections" -> SelDesired
       [] c = "zones" -> <<DefaultZone>> \o ZoneDesired
       [] c = "tags" -> TagDesired]

\* The controller with its baseline objects and no machine yet.
InitRuns ==
  /\ pc = "nodes_connect"
  /\ ob_num \in RunObNums
  /\ tasks \in RunTaskSets
  /\ run = 1
  /\ pings = 0
  /\ lastStatus = -1
  /\ ctl = CtlDone
  /\ ctl0 = CtlDone
  /\ importing = FALSE
  /\ waited = FALSE
  /\ cmachines = <<>>
  /\ coll = "none"
  /\ existing = <<>>
  /\ desired = <<>>
  /\ keys = <<>>
  /\ to_create = <<>>
  /\ issued = <<>>
  /\ rstat = "idle"
  /\ callNo = 0
  /\ machines = <<>>
  /\ existing_hostnames = <<>>
  /\ zones = <<>>
  /\ tags = <<>>
  /\ spc = [s \in tasks |-> "unstarted"]
  /\ mac = [s \in tasks |-> NoMac]
  /\ machine = [s \in tasks |-> NoMachine]
  /\ tagi = [s \in tasks |-> 0]
  /\ out = [s \in tasks |-> ""]
  /\ fault = [s \in tasks |-> "none"]

\* The program has ended; setup_maas_nodes is run again on the same controller.
Rerun ==
  /\ pc \in {"exit0", "crashed"}
  /\ run < MaxRuns
  /\ run' = run + 1
  /\ pc' = "nodes_connect"
  /\ machines' = <<>>
  /\ existing_hostnames' = <<>>
  /\ zones' = <<>>
  /\ tags' = <<>>
  /\ spc' = [s \in tasks |-> "unstarted"]
  /\ mac' = [s \in tasks |-> NoMac]
  /\ machine' = [s \in tasks |-> NoMachine]
  /\ tagi' = [s \in tasks |-> 0]
  /\ out' = [s \in tasks |-> ""]
  /\ fault' = [s \in tasks |-> "none"]
  /\ UNCHANGED <<ob_num, tasks, netvars, ctl, ctl0, importing, waited, cmachines,
                 recvars>>

NextRuns == NodesConnect \/ (\E s \in tasks : Slot(s)) \/ Join \/ Rerun

SpecRuns == InitRuns /\ [][NextRuns]_vars

\* ================================================================ properties
Count(seq, o) == Cardinality({i \in 1..Len(seq) : seq[i] = o})

KeyPresent(ex, o, ks) ==
  \E i \in 1..Len(ex) : \A j \in 1..Len(ks) : ex[i][ks[j]] = o[ks[j]]

UniqueByKey(objs, ks) ==
  \A i, j \in 1..Len(objs) :
    (\A k \in 1..Len(ks) : objs[i][ks[k]] = objs[j][ks[k]]) => i = j

DuplicateByKey(des, ks) ==
  \E i, j \in 1..Len(des) :
    i < j /\ \A k \in 1..Len(ks) : des[i][ks[k]] = des[j][ks[k]]

\* C1: one create() call issues a create call for exactly the desired items
\* whose key tuple is absent from the key tuples of `existing`: never for an
\* item whose key is present, never for something that is not a desired item,
\* never more often than the item is listed, and, once the call has returned,
\* once for every listing of an item whose key is absent.
C1_CreatesExactlyMissing ==
  /\ \A j \in 1..Len(issued) : \E i \in 1..Len(desired) : issued[j] = desired[i]
  /\ \A i \in 1..Len(desired) :
       LET o == desired[i] IN
         /\ KeyPresent(existing, o, keys) => Count(issued, o) = 0
         /\ Count(issued, o) <= Count(desired, o)
         /\ (rstat = "returned" /\ ~KeyPresent(existing, o, keys))
              => Count(issued, o) = Count(desired, o)

C1_Witness ==
  /\ rstat = "returned"
  /\ keys = <<"os", "release">>
  /\ existing = <<[os |-> "ubuntu", release |-> "focal"]>>
  /\ desired = <<[os |-> "ubuntu", release |-> "focal"],
                 [os |-> "ubuntu", release |-> "bionic"]>>
  /\ issued = <<[os |-> "ubuntu", release |-> "bionic"]>>

\* C2: a create() call that follows a returned call with the same desired
\* list and keys, its `existing` read again from the controller, issues no
\* create call.
C2_SecondCallCreatesNothing ==
  (pc = "harness" /\ callNo >= 2) => (issued = <<>> /\ to_create = <<>>)

C2_Witness ==
  /\ pc = "harness"
  /\ callNo = 2
  /\ rstat = "returned"
  /\ DuplicateByKey(desired, keys)
  /\ Len(ctl[coll]) > Len(ctl0[coll])

\* C3: if no two objects of the collection share an identity key before the
\* create() calls, no two objects share one afterwards.
C3_KeysStayUnique ==
  (pc = "harness" /\ UniqueByKey(ctl0[coll], keys)) => UniqueByKey(ctl[coll], keys)

\* The controller's machines that carry the hostname of slot s.
RecordsOf(s) == {i \in 1..Len(cmachines) : cmachines[i].hostname = Hostname(s, ob_num)}

\* C4: a slot whose ping failed ends skipped with "Couldn't contact AMT"
\* printed; when main() has returned from the fan-out, every slot none of
\* whose awaits failed is done with "Finished setting up" printed; and no
\* failure inside the fan-out ends the program with an error.
C4_ProbeFailureIsolated ==
  /\ \A s \in tasks :
       fault[s] = "ping" => (spc[s] = "skipped" /\ out[s] = "Couldn't contact AMT")
  /\ pc = "exit0" =>
       \A s \in tasks :
         fault[s] = "none" => (spc[s] = "done" /\ out[s] = "Finished setting up")
  /\ pc = "crashed" => \A s \in tasks : spc[s] = "unstarted"

C4_Witness ==
  /\ pc = "exit0"
  /\ 3 \in tasks
  /\ fault[3] = "ping" /\ spc[3] = "skipped"
  /\ \A s \in tasks \ {3} : spc[s] = "done"

ZoneNames == <<"zone1", "zone2">>

\* C5 as claimed: the machine of a finished slot is in the zone at index
\* floor((slot - 1) / 6) of the zone list: zone1 for slots 1..6, zone2 for 7..10.
C5_ZoneBySlotMinusOne ==
  \A s \in tasks :
    spc[s] = "done" =>
      \A i \in RecordsOf(s) : cmachines[i].zone = ZoneNames[((s - 1) \div 6) + 1]

\* C5 amended: the machine of a finished slot is in the zone at index
\* floor(slot / 6) of the zone list: zone1 for slots 1..5, zone2 for slots
\* 6..10; the index is within the list for every slot of 1..N.
C5_ZoneBySlot ==
  /\ \A s \in tasks :
       spc[s] = "done" =>
         /\ RecordsOf(s) # {}
         /\ \A i \in RecordsOf(s) :
              cmachines[i].zone = IF s \in 1..5 THEN "zone1" ELSE "zone2"
  /\ \A s \in tasks :
       spc[s] = "save" => LocalZone(s) = IF s \in 1..5 THEN "zone1" ELSE "zone2"
  /\ pc = "fanout" => \A s \in 1..N : ZoneIndex(s) \in 0..(Len(zones) - 1)

C5_Witness ==
  /\ {5, 6} \subseteq tasks
  /\ spc[5] = "done" /\ spc[6] = "done"
  /\ \E i \in RecordsOf(6) : cmachines[i].zone = "zone2"

\* C6: the controller never holds two machines with one hostname; a
\* coroutine awaits machines.create only when its hostname is not in the
\* list fetched before the fan-out and otherwise holds the listed machine
\* of that hostname; the machine created for slot 5 of Orange Box 8 is
\* named node05ob8.
C6_OneMachinePerHostname ==
  /\ \A i, j \in 1..Len(cmachines) :
       cmachines[i].hostname = cmachines[j].hostname => i = j
  /\ \A s \in tasks :
       /\ spc[s] = "create" =>
            \A i \in 1..Len(machines) : machines[i].hostname # Hostname(s, ob_num)
       /\ (spc[s] \in {"set_power", "tag_add", "save"}
            /\ \E i \in 1..Len(machines) : machines[i].hostname = Hostname(s, ob_num))
            => (machine[s].at > 0
                /\ machines[machine[s].at].hostname = Hostname(s, ob_num))
       /\ spc[s] \in {"set_power", "tag_add", "save"} =>
            cmachines[MachineId(s)].hostname = Hostname(s, ob_num)
  /\ (ob_num = 8 /\ 5 \in tasks /\ RecordsOf(5) # {}) =>
       \A i \in RecordsOf(5) :
         cmachines[i].hostname = <<"n", "o", "d", "e", "0", "5", "o", "b", "8">>

C6_Witness ==
  /\ run = 2
  /\ ob_num = 8
  /\ 5 \in tasks
  /\ spc[5] = "set_power"
  /\ machine[5].at > 0
  /\ Cardinality(RecordsOf(5)) = 1

\* C7 as claimed: a wait loop makes at most 60 ping invocations, it is left
\* for the next step only after an invocation with status 0, and when its
\* last invocation did not succeed and the loop is over, the program has
\* exited by the timeout branch after exactly 60 invocations.
C7_TimeoutAfterExactlyMax ==
  /\ pings <= NetAttempts /\ pings <= DnsAttempts
  /\ pc \in {"net_up", "dns_up"} => lastStatus = 0
  /\ (lastStatus \in {1, 2} /\ pc \notin {"net_wait", "dns_wait"}) =>
       (pc = "exit1" /\ pings = NetAttempts)

\* C8: a wait loop whose 60th invocation fails with a status it retries ends
\* the program by sys.exit(1); in the state of that exit nothing has been
\* done on the controller, and no step of the program follows it; the DNS
\* loop is entered only from the state the network loop leaves by a ping of
\* status 0.
C8_TimeoutIsFatal ==
  /\ [][(pc = "net_wait" /\ pings' = NetAttempts /\ lastStatus' = 1)
          => pc' = "exit1"]_vars
  /\ [][(pc = "dns_wait" /\ pings' = DnsAttempts /\ lastStatus' \in {1, 2})
          => pc' = "exit1"]_vars
  /\ [][pc # "exit1"]_vars
  /\ [](pc = "exit1" =>
          /\ ctl = NoCtl /\ cmachines = <<>> /\ callNo = 0 /\ ~importing
          /\ \A s \in tasks : spc[s] = "unstarted")
  /\ [][pc' = "dns_wait" => pc \in {"net_up", "dns_wait"}]_vars
  /\ [](pc = "net_up" => lastStatus = 0)

C8_Witness == pc = "exit1" /\ pings = NetAttempts /\ lastStatus = 1

\* C9 as claimed: a coroutine one of whose awaits failed has ended skipped,
\* with the line that gives the reason printed, and no exception has left it.
C9_AnyFailureSkips ==
  \A s \in tasks :
    fault[s] # "none" => (spc[s] = "skipped" /\ out[s] # "")

\* C10 as claimed: main() has returned from the fan-out only when every
\* coroutine has ended done or skipped.
C10_JoinAllDoneOrSkipped ==
  pc = "exit0" => \A s \in tasks : spc[s] \in {"done", "skipped"}

\* C11: a failing create aborts the create() call. The call that failed is
\* the last one issued: the exception leaves create() (and, in main(), the
\* program), no later item of to_create is sent, and the objects created
\* before the failure stay on the controller.
C11_Made == Len(ctl[coll]) - Len(ctl0[coll])

C11_FailureAborts ==
  /\ [](pc = "harness" /\ callNo = 1 =>
          /\ C11_Made \in 0..Len(issued)
          /\ ctl[coll] = ctl0[coll] \o SubSeq(issued, 1, C11_Made)
          /\ (C11_Made < Len(issued) =>
                 rstat = "raised" /\ C11_Made = Len(issued) - 1))
  /\ [][rstat = "raised" => rstat' = "raised" /\ issued' = issued /\ ctl' = ctl]_vars
  /\ [][Len(issued') > Len(issued) /\ ctl' = ctl => rstat' = "raised"]_vars

\* The first create failed while another item of to_create was still to
\* come: that item is never sent.
C11_Witness ==
  /\ pc = "harness"
  /\ rstat = "raised"
  /\ Len(issued) = 1
  /\ Len(to_create) > 1
  /\ ctl[coll] = ctl0[coll]

\* C12: the phases of main() run in order. The DNS wait starts only after a
\* ping of the network wait succeeded, the host setup only after a ping of
\* the DNS wait succeeded, and create() is called only after both; the
\* import is started only after the four create() calls (SSH key, boot
\* source selections, zones, tags) returned, with every desired object on
\* the controller; setup_maas_nodes() fetches its lists only after a poll
\* saw the import finished, and the node coroutines run only after that
\* fetch; a failed create ends the program before any of it.
C12_BaselineDone ==
  /\ \A i \in 1..Len(SshDesired) : KeyPresent(ctl["ssh_keys"], SshDesired[i], <<"key">>)
  /\ \A i \in 1..Len(SelDesired) :
        KeyPresent(ctl["selections"], SelDesired[i], <<"os", "release">>)
  /\ \A i \in 1..Len(ZoneDesired) : KeyPresent(ctl["zones"], ZoneDesired[i], <<"name">>)
  /\ \A i \in 1..Len(TagDesired) : KeyPresent(ctl["tags"], TagDesired[i], <<"name">>)

C12_PhasesOrdered ==
  /\ [][pc' = "net_up" /\ pc # "net_up" => pc = "net_wait" /\ lastStatus' = 0]_vars
  /\ [][pc' = "dns_wait" /\ pc # "dns_wait" => pc = "net_up"]_vars
  /\ [][pc' = "dns_up" /\ pc # "dns_up" => pc = "dns_wait" /\ lastStatus' = 0]_vars
  /\ [][pc' = "maas_init" /\ pc # "maas_init" => pc = "dns_up"]_vars
  /\ [](callNo > 0 \/ rstat # "idle" =>
          pc \notin {"net_wait", "net_up", "dns_wait", "dns_up", "maas_init", "exit1"})
  /\ [][callNo' # callNo =>
          /\ callNo' = callNo + 1
          /\ pc \in {"add_ssh", "ssh_keys", "selections", "zones"}
          /\ pc' = <<"ssh_keys", "selections", "zones", "tags">>[callNo']
          /\ (callNo > 0 => rstat = "returned")]_vars
  /\ [][importing' /\ ~importing =>
          /\ pc = "tags" /\ rstat = "returned" /\ callNo = 4
          /\ C12_BaselineDone
          /\ pc' = "import_wait"]_vars
  /\ [][pc' = "nodes_connect" /\ pc # "nodes_connect" =>
          pc = "import_wait" /\ ~importing]_vars
  /\ [][pc' = "fanout" /\ pc # "fanout" => pc = "nodes_connect"]_vars
  /\ [][machines' # machines \/ spc' # spc => pc \in {"nodes_connect", "fanout"}]_vars
  /\ [](rstat = "raised" =>
          /\ pc = "crashed"
          /\ ~importing
          /\ machines = <<>>
          /\ \A s \in tasks : spc[s] = "unstarted")
  /\ [][pc = "crashed" => pc' = "crashed"]_vars

\* A create of the zones call failed after the SSH key and the boot source
\* selections had been created: the program has ended, nothing was imported
\* and no node coroutine has started.
C12_Witness ==
  /\ pc = "crashed"
  /\ rstat = "raised"
  /\ coll = "zones"
  /\ callNo = 3
  /\ Len(ctl["ssh_keys"]) = 1
  /\ Len(ctl["selections"]) = 2
  /\ \A s \in tasks : spc[s] = "unstarted"

\* C13: the wait for the import has no attempt limit and no exit of its own.
\* While the program waits, an answered poll that finds the import running
\* leaves it waiting, however often it has waited before; the wait ends, and
\* setup_maas_nodes() starts, only by a poll that finds the import not
\* running; the program never exits with status 1 from the wait; and once
\* the import has stopped, the wait ends.
C13_WaitsWhileImporting ==
  /\ [][pc = "import_wait" =>
          /\ pc' \in {"import_wait", "nodes_connect", "crashed"}
          /\ (pc' = "nodes_connect" => ~importing /\ ~importing')
          /\ (pc' = "import_wait" /\ waited' # waited => importing /\ waited')]_vars
  /\ [][pc' = "nodes_connect" /\ pc # "nodes_connect" => pc = "import_wait"]_vars
  /\ [](pc = "import_wait" /\ waited => callNo = 4)
  /\ ((pc = "import_wait" /\ ~importing) ~> (pc # "import_wait"))

\* A poll found the import running and the program slept; the import has
\* finished since, and the program is still in the loop.
C13_Witness ==
  /\ pc = "import_wait"
  /\ waited
  /\ ~importing

\* C14: create() only adds. Every object that was on the controller before
\* the first call is still there, at its place and with its attributes, at
\* every later moment, also when desired holds an object with the same key
\* and other attributes; no step of create() removes or changes an object,
\* and each step adds at most one, at the end.
C14_OnlyAdds ==
  /\ [](pc = "harness" =>
          /\ Len(ctl0[coll]) <= Len(ctl[coll])
          /\ SubSeq(ctl[coll], 1, Len(ctl0[coll])) = ctl0[coll]
          /\ \A c \in Colls \ {coll} : ctl[c] = ctl0[c])
  /\ [][pc = "harness" =>
          \A c \in Colls :
            \/ ctl'[c] = ctl[c]
            \/ /\ c = coll
               /\ Len(ctl'[c]) = Len(ctl[c]) + 1
               /\ SubSeq(ctl'[c], 1, Len(ctl[c])) = ctl[c]]_vars

\* The call returned after a create, with an object on the controller whose
\* key is in desired under other attributes than the controller holds.
C14_Witness ==
  /\ pc = "harness"
  /\ rstat = "returned"
  /\ callNo = 1
  /\ Len(issued) > 0
  /\ \E i \in 1..Len(ctl0[coll]), j \in 1..Len(desired) :
        /\ KeyOf(ctl0[coll][i], keys) = KeyOf(desired[j], keys)
        /\ ctl0[coll][i] # desired[j]
        /\ ctl[coll][i] = ctl0[coll][i]

\* C15: the creates are issued in the order of desired, one at a time. The
\* k-th create of a call carries the k-th object of desired, counted from the
\* start, whose key the controller did not hold when the call began; so of
\* two such objects the one earlier in desired is created, and its create has
\* returned, before the create of the later one is issued.
C15_AbsentIdx == {i \in 1..Len(desired) : ~KeyPresent(existing, desired[i], keys)}

C15_Kth(S, k) == CHOOSE x \in S : Cardinality({y \in S : y < x}) = k - 1

C15_DesiredOrder ==
  /\ [](/\ Len(issued) <= Cardinality(C15_AbsentIdx)
        /\ \A k \in 1..Len(issued) : issued[k] = desired[C15_Kth(C15_AbsentIdx, k)])
  /\ [][issued' # issued =>
          \/ issued' = <<>>
          \/ /\ Len(issued') = Len(issued) + 1
             /\ SubSeq(issued', 1, Len(issued)) = issued]_vars

\* Two different objects of desired were missing and both were created.
C15_Witness ==
  /\ pc = "harness"
  /\ rstat = "returned"
  /\ Len(issued) = 2
  /\ issued[1] # issued[2]
  /\ issued[1] = desired[1]
  /\ ctl[coll] = ctl0[coll] \o issued

\* C16: set_power is called for every machine, new or reused. A coroutine
\* reaches the tag loop only from its set_power call, which it makes only
\* after create() returned or the lookup found its machine, and it reaches
\* save() only from the tag loop; the call names power type "amt" and the
\* address 172.27.<ob_num>.<slot + 10>. So a coroutine that printed
\* "Finished setting up" has set the power parameters of its machine before
\* it saved it.
C16_SetPowerAlways ==
  /\ [][\A s \in tasks :
          /\ (spc'[s] = "set_power" /\ spc[s] # "set_power" =>
                 /\ spc[s] \in {"neighbor", "create"}
                 /\ (spc[s] = "create" <=> ~InSnapshot(Hostname(s, ob_num)))
                 /\ MachineId(s)' \in 1..Len(cmachines')
                 /\ cmachines'[MachineId(s)'].hostname = Hostname(s, ob_num))
          /\ (spc'[s] = "tag_add" /\ spc[s] # "tag_add" =>
                 /\ spc[s] = "set_power"
                 /\ cmachines'[MachineId(s)].power_type = "amt"
                 /\ cmachines'[MachineId(s)].power_address = <<172, 27, ob_num, s + 10>>)
          /\ (spc'[s] = "save" /\ spc[s] # "save" => spc[s] = "tag_add")
          /\ (spc'[s] = "done" /\ spc[s] # "done" => spc[s] = "save")]_vars
  /\ [](\A s \in tasks :
          spc[s] = "done" =>
            \E i \in RecordsOf(s) :
              /\ cmachines[i].power_type = "amt"
              /\ cmachines[i].power_address = <<172, 27, ob_num, s + 10>>)

\* Two coroutines have finished: one reused a machine of the fetched list,
\* the other created its machine.
C16_Witness ==
  \E s, t \in tasks :
    /\ spc[s] = "done" /\ InSnapshot(Hostname(s, ob_num))
    /\ spc[t] = "done" /\ ~InSnapshot(Hostname(t, ob_num))

\* C17 as stated: the lists fetched by setup_maas_nodes() are fetched once,
\* before any coroutine starts, and during the fan-out nothing in them
\* changes, the Machine objects of `machines` included.
C17_SnapshotNeverChanges ==
  [][pc = "fanout" =>
       /\ machines' = machines
       /\ existing_hostnames' = existing_hostnames
       /\ zones' = zones
       /\ tags' = tags]_vars

\* C17 amended: the lists are fetched once, before any coroutine starts, and
\* during the fan-out their length, order, hostnames, zones and tags stay as
\* fetched; the one change to a fetched Machine object is `machine.zone =
\* zones[num // 6]`, made by the coroutine of the slot whose hostname the
\* object carries, after its last tag and before its save().
C17_OnlyOwnZoneChanges ==
  /\ [][pc # "fanout" /\ <<machines, existing_hostnames, zones, tags>>' #
                          <<machines, existing_hostnames, zones, tags>> =>
          /\ pc = "nodes_connect" /\ pc' = "fanout"
          /\ \A s \in tasks : spc[s] = "unstarted" /\ spc'[s] = "ping"]_vars
  /\ [][pc = "fanout" =>
          /\ existing_hostnames' = existing_hostnames
          /\ zones' = zones
          /\ tags' = tags
          /\ Len(machines') = Len(machines)
          /\ \A i \in 1..Len(machines) :
                machines'[i] # machines[i] =>
                  /\ machines'[i].id = machines[i].id
                  /\ machines'[i].hostname = machines[i].hostname
                  /\ \E s \in tasks :
                        /\ machines[i].hostname = Hostname(s, ob_num)
                        /\ spc[s] = "tag_add" /\ spc'[s] = "save"
                        /\ machines'[i].zone = ZoneNames[(s \div 6) + 1]]_vars

\* A coroutine that reuses a machine of the fetched list has assigned its
\* zone and is about to save: the object in the list no longer has the zone
\* it was fetched with.
C17_Witness ==
  /\ pc = "fanout"
  /\ \E s \in tasks :
        /\ spc[s] = "save"
        /\ machine[s].at > 0
        /\ machines[machine[s].at].hostname = Hostname(s, ob_num)
        /\ machines[machine[s].at].zone = ZoneNames[(s \div 6) + 1]
        /\ cmachines[machines[machine[s].at].id].zone = "default"

\* C18: no two coroutines work on the same machine. The ten slots have ten
\* different hostnames and ten different AMT addresses, for the ob_num the
\* program starts with and never changes; a coroutine that
\* holds a machine holds the record of its own hostname, which no other
\* coroutine holds; and every record a step of the fan-out adds or changes
\* on the controller carries the hostname of the slot that took the step.
C18_Holding(s) == spc[s] \in {"set_power", "tag_add", "save"}

C18_Stepped(s) == spc'[s] # spc[s] \/ tagi'[s] # tagi[s]

C18_NoSharedMachine ==
  /\ \A s, t \in 1..N :
       s # t => /\ Hostname(s, ob_num) # Hostname(t, ob_num)
                /\ AmtIp(s, ob_num) # AmtIp(t, ob_num)
  /\ [][ob_num' = ob_num]_vars
  /\ [](\A s \in tasks :
          C18_Holding(s) =>
            /\ MachineId(s) \in 1..Len(cmachines)
            /\ cmachines[MachineId(s)].hostname = Hostname(s, ob_num)
            /\ \A t \in tasks \ {s} : C18_Holding(t) => MachineId(t) # MachineId(s))
  /\ [][pc = "fanout" /\ pc' = "fanout" =>
          \A i \in 1..Len(cmachines') :
            (i > Len(cmachines) \/ cmachines'[i] # cmachines[i]) =>
              \E s \in tasks :
                /\ C18_Stepped(s)
                /\ \A t \in tasks \ {s} : ~C18_Stepped(t)
                /\ cmachines'[i].hostname = Hostname(s, ob_num)]_vars

\* Two coroutines hold a machine at the same time, one that it created and
\* one that it found in the fetched list.
C18_Witness ==
  \E s, t \in tasks :
    /\ s # t
    /\ spc[s] = "tag_add" /\ machine[s].at > 0
    /\ spc[t] = "tag_add" /\ machine[t].at = 0
    /\ MachineId(s) # MachineId(t)

\* C19: a machine is saved with both tags and its zone. A coroutine awaits
\* save() only after the controller accepted the add of "physical" and of
\* "use-fastpath-installer" for its machine and after it assigned the zone of
\* its slot; save() is its last call, after which it changes nothing on the
\* controller; the add of a tag the machine already has, as for a machine
\* reused from an earlier run, is a call like any other: once accepted, the
\* tags are as before and the coroutine goes on.
C19_Required == {"physical", "use-fastpath-installer"}

C19_TaggedAndZoned ==
  /\ [](\A s \in tasks :
          /\ (spc[s] = "save" =>
                 /\ C19_Required \subseteq cmachines[MachineId(s)].tags
                 /\ LocalZone(s) = ZoneNames[(s \div 6) + 1])
          /\ (spc[s] = "done" =>
                 \E i \in RecordsOf(s) :
                   /\ C19_Required \subseteq cmachines[i].tags
                   /\ cmachines[i].zone = ZoneNames[(s \div 6) + 1]))
  /\ [][\A s \in tasks :
          /\ (spc'[s] = "save" /\ spc[s] # "save" =>
                 spc[s] = "tag_add" /\ tagi[s] = Cardinality(C19_Required))
          /\ (spc'[s] = "done" /\ spc[s] # "done" =>
                 /\ spc[s] = "save"
                 /\ cmachines'[MachineId(s)].zone = ZoneNames[(s \div 6) + 1])
          /\ (spc[s] = "done" /\ spc'[s] = "done" =>
                 \A i \in 1..Len(cmachines') :
                   cmachines'[i].hostname = Hostname(s, ob_num) =>
                     i <= Len(cmachines) /\ cmachines'[i] = cmachines[i])
          /\ (spc[s] = "tag_add" /\ spc'[s] \in {"tag_add", "save"}
                /\ (tagi'[s] # tagi[s] \/ spc'[s] = "save")
                /\ tags[tagi[s]] \in cmachines[MachineId(s)].tags =>
                 cmachines'[MachineId(s)].tags = cmachines[MachineId(s)].tags)]_vars

\* A later run reuses a machine that an earlier run had tagged with both
\* tags: the add of the first tag was accepted and the coroutine is at the
\* second, which the machine has as well.
C19_Witness ==
  /\ run > 1
  /\ \E s \in tasks :
        /\ spc[s] = "tag_add"
        /\ tagi[s] = 2
        /\ machine[s].at > 0
        /\ C19_Required \subseteq cmachines[MachineId(s)].tags

\* C20: a slot whose ping fails leaves the controller alone. The step in
\* which the ping fails ends the coroutine without a call to the controller;
\* the coroutine never has a MAC address or a machine and never gets to the
\* create, set_power, tag or save calls; and from the start of the fan-out
\* to the end of the run no step adds, removes or changes a record with the
\* hostname of that slot, so these records are as they were fetched.
C20_SameRecords(s) ==
  /\ Len(cmachines') >= Len(cmachines)
  /\ \A i \in 1..Len(cmachines') :
        (cmachines'[i].hostname = Hostname(s, ob_num)
           \/ (i <= Len(cmachines) /\ cmachines[i].hostname = Hostname(s, ob_num))) =>
          i <= Len(cmachines) /\ cmachines'[i] = cmachines[i]

C20_SkippedSlotUntouched ==
  /\ [][\A s \in tasks :
          /\ (fault'[s] = "ping" /\ fault[s] # "ping" =>
                 spc[s] = "ping" /\ spc'[s] = "skipped" /\ cmachines' = cmachines)
          /\ (spc[s] = "skipped" => spc'[s] = "skipped")
          /\ (spc[s] \in {"ping", "skipped"} /\ spc'[s] \in {"ping", "skipped"} =>
                 C20_SameRecords(s))]_vars
  /\ [](\A s \in tasks :
          fault[s] = "ping" =>
            /\ spc[s] = "skipped"
            /\ mac[s] = NoMac /\ machine[s] = NoMachine /\ tagi[s] = 0
            /\ (RecordsOf(s) # {} <=> InSnapshot(Hostname(s, ob_num)))
            /\ \A i \in RecordsOf(s) :
                  /\ i <= Len(machines)
                  /\ machines[i].id = i
                  /\ machines[i].zone = cmachines[i].zone)

\* The run has ended; the ping of one slot failed, and the machine that the
\* controller held for it is as it was; another slot brought its machine to
\* the end.
C20_Witness ==
  /\ pc = "exit0"
  /\ \E s, t \in tasks :
        /\ fault[s] = "ping" /\ spc[s] = "skipped"
        /\ InSnapshot(Hostname(s, ob_num))
        /\ \A i \in RecordsOf(s) : cmachines[i].tags = {} /\ cmachines[i].zone = "default"
        /\ spc[t] = "done"

====
